---- MODULE Spec2Model ----
(***************************************************************************)
(* UserManager (src/src/UserManager.ts): the administrative client of an   *)
(* identity provider's user API.  Each public operation is an async        *)
(* function; it is modelled as the steps between its suspension points     *)
(* (await).  The transport (this.request), the token supplier (this.token) *)
(* and the identity provider behind the transport are the environment.     *)
(*                                                                         *)
(* Strings the code takes apart (the Location header, user ids) are        *)
(* sequences of one-character strings; JavaScript values whose shape the   *)
(* code tests are records tagged by the field t.                           *)
(***************************************************************************)
EXTENDS Integers, Sequences, FiniteSets, TLC

VARIABLES
  call,      \* caller |-> the invocation it runs: operation, position, locals
  accounts,  \* identity provider: the ids of the accounts that exist
  stored,    \* identity provider: account id |-> its attributes field
  created,   \* history: the ids of the accounts a creation POST has made
  outage     \* history: the ids that had a create follow-up rejected

vars == <<call, accounts, stored, created, outage>>

----------------------------------------------------------------------------
(* Bounds and input sets *)

MaxClients == 2        \* longest clientsIds list passed to roles
MaxIncoming == 2       \* longest attributes list passed to addAttributes

Callers == {"c1"}
IdA == <<"a">>         \* an account that exists from the start
IdB == <<"b">>         \* the id the provider assigns to a created account
UserIds == {IdA, IdB}
AttributeIds == {IdA}  \* the accounts addAttributes and getAttributes are called on
ClientIds == {"cA", "cB"}
Keys == {"k1", "k2"}
Values == {<<"x">>, <<"y">>}
Users ==
  { [username |-> "ann", email |-> "ann@x", password |-> "pw1"],
    [username |-> "bob", email |-> "bob@x", password |-> "pw2"] }

RECURSIVE SeqsUpTo(_, _)
SeqsUpTo(S, n) ==
  IF n = 0 THEN {<<>>}
  ELSE LET shorter == SeqsUpTo(S, n - 1)
       IN  shorter \cup {Append(s, x) : s \in {t \in shorter : Len(t) = n - 1}, x \in S}

Attributes == [key : Keys, value : Values]

----------------------------------------------------------------------------
(* JavaScript values *)

Undefined == [t |-> "undefined"]
Null == [t |-> "null"]
Obj(entries) == [t |-> "object", entries |-> entries]   \* own entries, in key order
Str(chars) == [t |-> "string", chars |-> chars]

\* String.prototype.split with a one-character separator.
RECURSIVE Split(_, _)
Split(s, sep) ==
  IF s = <<>> THEN << <<>> >>
  ELSE LET init == Split(SubSeq(s, 1, Len(s) - 1), sep)
           ch == s[Len(s)]
       IN  IF ch = sep
           THEN Append(init, <<>>)
           ELSE [init EXCEPT ![Len(init)] = Append(@, ch)]

\* Array.prototype.pop: the last element, undefined for an empty array.
Pop(arr) == IF Len(arr) = 0 THEN Undefined ELSE arr[Len(arr)]

Arr(items) == [t |-> "array", items |-> items]
Num(n) == [t |-> "number", n |-> n]
JsString(s) == [t |-> "string", s |-> s]

\* Truthiness of the values the code tests.
Truthy(v) == v.t \notin {"undefined", "null"}

\* An axios response; a transport that resolves with nothing gives Undefined.
Response(data, headers) == [t |-> "response", data |-> data, headers |-> headers]
HeadersOf(location) == [t |-> "headers", location |-> location]

\* The outcome of a statement that can throw.
Threw == [threw |-> TRUE, value |-> Undefined]
Returned(v) == [threw |-> FALSE, value |-> v]

\* Object.entries: throws on undefined and null; a string and an array have
\* their indices as keys; a number or a boolean has no entries.
ObjectEntries(v) ==
  IF v.t \in {"undefined", "null"} THEN Threw
  ELSE IF v.t = "object" THEN Returned(v.entries)
  ELSE IF v.t = "string" THEN Returned([i \in 1..Len(v.chars) |-> <<ToString(i - 1), v.chars[i]>>])
  ELSE IF v.t = "array" THEN Returned([i \in 1..Len(v.items) |-> <<ToString(i - 1), v.items[i]>>])
  ELSE Returned(<<>>)

----------------------------------------------------------------------------
(* Pure parts of UserManager *)

\* getAttributes, lines 81-93: response?.data.attributes, read inside try.
AttributesField(response) ==
  IF response.t = "undefined" THEN Returned(Undefined)       \* ?. short-circuits
  ELSE IF response.data.t \in {"undefined", "null"} THEN Threw
  ELSE Returned(response.data.attributes)

ParseAttributes(response) ==
  LET field == AttributesField(response)
      entries == IF field.threw THEN Threw ELSE ObjectEntries(field.value)
  IN  IF entries.threw
      THEN <<>>                                              \* catch: logged only
      ELSE [i \in 1..Len(entries.value) |->
              [key |-> entries.value[i][1], value |-> entries.value[i][2]]]

\* Variant: a key already in the map keeps its first value.
MapSet_KeepFirst(m, key, value) ==
  IF \E i \in 1..Len(m) : m[i][1] = key
  THEN m
  ELSE Append(m, <<key, value>>)

\* Variant: the new values are appended to the ones the key already has.
MapSet_Concat(m, key, value) ==
  IF \E i \in 1..Len(m) : m[i][1] = key
  THEN [i \in 1..Len(m) |-> IF m[i][1] = key THEN <<key, m[i][2] \o value>> ELSE m[i]]
  ELSE Append(m, <<key, value>>)

\* Map.prototype.set on a map kept as its entries in insertion order.
MapSet(m, key, value) ==
  IF \E i \in 1..Len(m) : m[i][1] = key
  THEN [i \in 1..Len(m) |-> IF m[i][1] = key THEN <<key, value>> ELSE m[i]]
  ELSE Append(m, <<key, value>>)

RECURSIVE SetAll(_, _)
SetAll(m, attrs) ==
  IF attrs = <<>> THEN m
  ELSE SetAll(MapSet(m, Head(attrs).key, Head(attrs).value), Tail(attrs))

\* Variant: only the incoming attributes are written (a patch).
MergeAttributes_IncomingOnly(previousAttributes, attributes) ==
  Obj(SetAll(<<>>, attributes))

\* addAttributes, lines 63-70: concat, fold into a Map, Object.fromEntries.
MergeAttributes(previousAttributes, attributes) ==
  Obj(SetAll(<<>>, previousAttributes \o attributes))

\* The mapping an object denotes (key |-> value), whatever the entry order.
KeysOf(entries) == {entries[i][1] : i \in 1..Len(entries)}
Lookup(entries, k) ==
  LET i == CHOOSE j \in 1..Len(entries) :
             /\ entries[j][1] = k
             /\ \A l \in (j + 1)..Len(entries) : entries[l][1] # k
  IN  entries[i][2]
MappingOf(entries) == [k \in KeysOf(entries) |-> Lookup(entries, k)]

\* create, line 51: response.headers.location.split('/').pop()
ExtractUserId(response) ==
  IF response.t = "undefined" THEN Threw
  ELSE IF response.headers.t = "undefined" THEN Threw
  ELSE IF response.headers.location.t = "undefined" THEN Threw
  ELSE Returned(Pop(Split(response.headers.location.chars, "/")))

\* Promise.allSettled's entry for one settled request.
SettledResult(req) ==
  IF req.status = "fulfilled"
  THEN [t |-> "settled", status |-> "fulfilled", value |-> req.value]
  ELSE [t |-> "settled", status |-> "rejected", value |-> req.value]

\* filterFulfilledResults, lines 120-122.
FilterFulfilledResults(response) ==
  IF response.status = "fulfilled" THEN response.value ELSE Null

\* listRolesNames, lines 124-126.
ListRolesNames(list, names) == list \o names

\* lines 103-104 applied to `successes`: each element's .data is mapped to the
\* role names; an element without .data makes the map throw.
RECURSIVE NamesOf(_)
NamesOf(successes) ==
  IF successes = <<>> THEN Returned(<<>>)
  ELSE LET first == Head(successes)
           rest == NamesOf(Tail(successes))
       IN  IF first.t # "response" \/ first.data.t # "array" \/ rest.threw
           THEN Threw
           ELSE Returned(ListRolesNames(
                  [i \in 1..Len(first.data.items) |-> JsString(first.data.items[i].name)],
                  rest.value))

\* Variant: with no success the settled (failed) outcomes themselves are returned.
BatchAndParseRoles_ReturnsFailures(batchResponses) ==
  LET successes == SelectSeq(batchResponses,
                             LAMBDA r : Truthy(FilterFulfilledResults(r)))
  IN  IF Len(successes) # 0
      THEN Returned(Arr(successes))
      ELSE Returned(Arr(batchResponses))

\* batchAndParseRolesPromises, lines 98-104, on the settled batch.
BatchAndParseRoles(batchResponses) ==
  LET successes == SelectSeq(batchResponses,
                             LAMBDA r : Truthy(FilterFulfilledResults(r)))
  IN  IF Len(successes) # 0
      THEN Returned(Arr(successes))
      ELSE LET names == NamesOf(successes)
           IN  IF names.threw THEN Threw ELSE Returned(Arr(names.value))

----------------------------------------------------------------------------
(* Requests and the state of one invocation *)

Token == "tok"                       \* what the token supplier hands out

\* mountHeaders, line 130.
MountedHeaders(accessToken) == [Authorization |-> <<"Bearer", accessToken>>]

Url(kind, id, cid) == [kind |-> kind, id |-> id, cid |-> cid]

NewRequest(method, url, body, headers) ==
  [method |-> method, url |-> url, body |-> body, headers |-> headers,
   status |-> "pending", value |-> Undefined]

\* Variant: only a fulfilled request counts as settled.
Settled_FulfilledOnly(req) == req.status = "fulfilled"

Settled(req) == req.status # "pending"

\* Variant: a race, the join resolves with the first member that settles.
AnySettled(reqs) == reqs = <<>> \/ \E i \in 1..Len(reqs) : Settled(reqs[i])

\* Promise.allSettled(promises) resolves when every member has settled.
AllSettled(reqs) == \A i \in 1..Len(reqs) : Settled(reqs[i])

NoArgs ==
  [id |-> <<>>, clientsIds |-> <<>>, includeRealmRoles |-> FALSE,
   user |-> Undefined, attributes |-> <<>>]

IdleCall ==
  [op |-> "none", frame |-> "none", pc |-> "idle", args |-> NoArgs,
   asks |-> 0, reqs |-> <<>>, userId |-> Undefined,
   previousAttributes |-> <<>>, result |-> Undefined, error |-> "none"]

\* A public operation is entered: every one starts by awaiting mountHeaders(),
\* which calls this.token.get() (line 129).
Invoke(op, args) ==
  [IdleCall EXCEPT !.op = op, !.frame = op, !.pc = "token", !.args = args, !.asks = 1]

Free(c) == call[c].pc \in {"idle", "done", "failed"}

Fail(cl, error) == [cl EXCEPT !.pc = "failed", !.error = error]
Return(cl, value) == [cl EXCEPT !.pc = "done", !.result = value]
Issue(cl, requests) == [cl EXCEPT !.pc = "await", !.reqs = @ \o requests]

----------------------------------------------------------------------------
(* The identity provider and the transport *)

NoAttributes == [t |-> "absent"]
StoredMap(m) == [t |-> "map", m |-> m]

\* Role records the provider holds per scope ("" is the realm scope).
RoleRecords(cid) ==
  IF cid = "cA" THEN << [name |-> "read"] >>
  ELSE IF cid = "cB" THEN << [name |-> "read"], [name |-> "write"] >>
  ELSE << [name |-> "admin"] >>

\* The orders in which the entries of a stored mapping can be serialised.
EntryOrders(m) ==
  {e \in SeqsUpTo({<<k, m[k]>> : k \in DOMAIN m}, Cardinality(DOMAIN m)) :
     Len(e) = Cardinality(DOMAIN m) /\ KeysOf(e) = DOMAIN m}

UserRecords(id) ==
  IF stored[id].t = "absent"
  THEN { [t |-> "user", id |-> id, attributes |-> Undefined] }
  ELSE { [t |-> "user", id |-> id, attributes |-> Obj(e)] : e \in EntryOrders(stored[id].m) }

PathPrefix == <<"/", "u", "/">>       \* stands for the realm's users path

\* What a served creation POST may answer for the new account id.
CreationResponses(id) ==
  { Undefined,
    Response(Undefined, Undefined),
    Response(Undefined, HeadersOf(Undefined)),
    Response(Undefined, HeadersOf(Str(<<>>))),
    Response(Undefined, HeadersOf(Str(PathPrefix \o id))),
    Response(Undefined, HeadersOf(Str(PathPrefix \o id \o <<"/">>))) }

FreshIds == UserIds \ accounts

\* The values the transport can resolve a request with, given the provider
\* (a creation POST is answered with one of CreationResponses).
Resolutions(req) ==
  IF req.url.kind = "user" /\ req.method = "GET"
    THEN {Undefined} \cup
         (IF req.url.id \in accounts
          THEN {Response(r, HeadersOf(Undefined)) : r \in UserRecords(req.url.id)}
          ELSE {})
  ELSE IF req.url.kind \in {"clientRoles", "realmRoles"}
    THEN {Undefined, Response(Arr(RoleRecords(req.url.cid)), HeadersOf(Undefined))}
  ELSE IF req.method = "POST"
    THEN {}
  ELSE IF req.url.id \in accounts
    THEN {Response(Undefined, HeadersOf(Undefined))}
  ELSE {}

\* The provider's state after it has served a request.
AccountsAfter(req, newId) ==
  IF req.method = "POST" THEN accounts \cup {newId}
  ELSE IF req.method = "DELETE" THEN accounts \ {req.url.id}
  ELSE accounts

StoredAfter(req, newId) ==
  IF req.method = "POST"
    THEN [id \in UserIds |-> IF id = newId THEN NoAttributes ELSE stored[id]]
  ELSE IF req.method = "PUT" /\ req.url.kind = "user"
    THEN [stored EXCEPT ![req.url.id] = StoredMap(MappingOf(req.body.attributes.entries))]
  ELSE stored

----------------------------------------------------------------------------
(* Initial state *)

Init ==
  /\ call = [c \in Callers |-> IdleCall]
  /\ accounts = {IdA}
  /\ stored = [id \in UserIds |-> NoAttributes]
  /\ created = {}
  /\ outage = {}

provider == <<accounts, stored, created, outage>>

----------------------------------------------------------------------------
(* Public operations are invoked *)

CallDetails(c) ==
  /\ Free(c)
  /\ \E id \in UserIds :
       call' = [call EXCEPT ![c] = Invoke("details", [NoArgs EXCEPT !.id = id])]
  /\ UNCHANGED provider

CallRoles(c) ==
  /\ Free(c)
  /\ \E id \in {IdA}, clientsIds \in SeqsUpTo(ClientIds, MaxClients),
        includeRealmRoles \in BOOLEAN :
       call' = [call EXCEPT ![c] =
                  Invoke("roles", [NoArgs EXCEPT !.id = id, !.clientsIds = clientsIds,
                                                 !.includeRealmRoles = includeRealmRoles])]
  /\ UNCHANGED provider

CallCreate(c) ==
  /\ Free(c)
  /\ \E user \in Users :
       call' = [call EXCEPT ![c] = Invoke("create", [NoArgs EXCEPT !.user = user])]
  /\ UNCHANGED provider

CallAddAttributes(c) ==
  /\ Free(c)
  /\ \E id \in AttributeIds, attributes \in SeqsUpTo(Attributes, MaxIncoming) :
       call' = [call EXCEPT ![c] =
                  Invoke("addAttributes", [NoArgs EXCEPT !.id = id, !.attributes = attributes])]
  /\ UNCHANGED provider

CallGetAttributes(c) ==
  /\ Free(c)
  /\ \E id \in AttributeIds :
       call' = [call EXCEPT ![c] = Invoke("getAttributes", [NoArgs EXCEPT !.id = id])]
  /\ UNCHANGED provider

----------------------------------------------------------------------------
(* The token supplier answers: mountHeaders resumes *)

Headers == MountedHeaders(Token)

\* Variant: the supplier's failure is swallowed and the request goes out anyway.
TokenRejected_Swallowed(c) ==
  /\ call[c].pc = "token"
  /\ call' = [call EXCEPT ![c] =
                IF @.frame = "addAttributes" THEN Fail(@, "token")
                ELSE Issue([@ EXCEPT !.error = "token"],
                           << NewRequest("GET", Url("user", @.args.id, ""),
                                         Undefined, MountedHeaders("")) >>)]
  /\ UNCHANGED provider

\* this.token.get() rejects: the await in mountHeaders throws, and so does the
\* operation awaiting mountHeaders.
TokenRejected(c) ==
  /\ call[c].pc = "token"
  /\ call' = [call EXCEPT ![c] = Fail(@, "token")]
  /\ UNCHANGED provider

\* details, lines 22-23.
DetailsRequests(cl) ==
  << NewRequest("GET", Url("user", cl.args.id, ""), Undefined, Headers) >>

DetailsGet(c) ==
  /\ call[c].pc = "token" /\ call[c].op = "details"
  /\ call' = [call EXCEPT ![c] = Issue(@, DetailsRequests(@))]
  /\ UNCHANGED provider

\* stackUpGetClientRolesRequests, lines 107-118.
StackUpGetClientRolesRequests(id, clientsIds) ==
  [i \in 1..Len(clientsIds) |->
     NewRequest("GET", Url("clientRoles", id, clientsIds[i]), Undefined, Headers)]

\* Variant: the realm request is made whatever includeRealmRoles says.
RolesRequests_AlwaysRealm(cl) ==
  StackUpGetClientRolesRequests(cl.args.id, cl.args.clientsIds)
    \o << NewRequest("GET", Url("realmRoles", cl.args.id, ""), Undefined, Headers) >>

\* roles, lines 32-40: the batch handed to batchAndParseRolesPromises.
RolesRequests(cl) ==
  StackUpGetClientRolesRequests(cl.args.id, cl.args.clientsIds)
    \o (IF cl.args.includeRealmRoles
        THEN << NewRequest("GET", Url("realmRoles", cl.args.id, ""), Undefined, Headers) >>
        ELSE <<>>)

\* Variant: headers are mounted again for every request of the batch.
RolesFanOut_TokenPerRequest(c) ==
  /\ call[c].pc = "token" /\ call[c].op = "roles"
  /\ call' = [call EXCEPT ![c] =
                Issue([@ EXCEPT !.asks = @ + Len(RolesRequests(call[c]))],
                      RolesRequests(@))]
  /\ UNCHANGED provider

RolesFanOut(c) ==
  /\ call[c].pc = "token" /\ call[c].op = "roles"
  /\ call' = [call EXCEPT ![c] = Issue(@, RolesRequests(@))]
  /\ UNCHANGED provider

\* Variant: the whole user, password included, is posted.
UserData_WithPassword(user) == user

\* create, line 46: the user without its password.
UserData(user) == [f \in DOMAIN user \ {"password"} |-> user[f]]

\* create, line 50.
CreateRequests(cl) ==
  << NewRequest("POST", Url("users", <<>>, ""), UserData(cl.args.user), Headers) >>

CreatePost(c) ==
  /\ call[c].pc = "token" /\ call[c].op = "create"
  /\ call' = [call EXCEPT ![c] = Issue(@, CreateRequests(@))]
  /\ UNCHANGED provider

\* addAttributes, lines 59-62: with its own headers mounted it calls
\* getAttributes, which mounts headers again (line 76).
AddAttributesRead(c) ==
  /\ call[c].pc = "token" /\ call[c].op = "addAttributes"
  /\ call[c].frame = "addAttributes"
  /\ call' = [call EXCEPT ![c].frame = "getAttributes", ![c].asks = @ + 1]
  /\ UNCHANGED provider

\* getAttributes, lines 77-79.
GetAttributesRequests(cl) ==
  << NewRequest("GET", Url("user", cl.args.id, ""), Undefined, Headers) >>

GetAttributesGet(c) ==
  /\ call[c].pc = "token" /\ call[c].frame = "getAttributes"
  /\ call' = [call EXCEPT ![c] = Issue(@, GetAttributesRequests(@))]
  /\ UNCHANGED provider

----------------------------------------------------------------------------
(* The transport settles a pending request *)

TransportError == [t |-> "error"]

Resolve(cl, i, value) ==
  [cl EXCEPT !.reqs[i].status = "fulfilled", !.reqs[i].value = value]

Fulfil(c) ==
  \E i \in 1..Len(call[c].reqs) :
    LET req == call[c].reqs[i] IN
    /\ req.status = "pending"
    /\ IF req.method = "POST"
       THEN \E newId \in FreshIds : \E value \in CreationResponses(newId) :
              /\ call' = [call EXCEPT ![c] = Resolve(@, i, value)]
              /\ accounts' = AccountsAfter(req, newId)
              /\ stored' = StoredAfter(req, newId)
              /\ created' = created \cup {newId}
       ELSE \E value \in Resolutions(req) :
              /\ call' = [call EXCEPT ![c] = Resolve(@, i, value)]
              /\ accounts' = AccountsAfter(req, <<>>)
              /\ stored' = IF value.t = "undefined" THEN stored ELSE StoredAfter(req, <<>>)
              /\ created' = created
    /\ UNCHANGED outage

\* Records whose attributes field is not a mapping, and a response without a
\* body: what getAttributes' lenient parse (lines 83-91) is there for.
MalformedResponses(id) ==
  { Response(Undefined, HeadersOf(Undefined)),
    Response([t |-> "user", id |-> id, attributes |-> Null], HeadersOf(Undefined)),
    Response([t |-> "user", id |-> id, attributes |-> Num(7)], HeadersOf(Undefined)),
    Response([t |-> "user", id |-> id, attributes |-> Str(<<"x", "y">>)], HeadersOf(Undefined)),
    Response([t |-> "user", id |-> id, attributes |-> Arr(<< <<"x">> >>)], HeadersOf(Undefined)) }

\* The GET of a getAttributes call is answered with such a response.
FulfilMalformed(c) ==
  /\ call[c].op = "getAttributes" /\ call[c].pc = "await"
  /\ call[c].reqs[1].status = "pending"
  /\ \E value \in MalformedResponses(call[c].args.id) :
       call' = [call EXCEPT ![c] = Resolve(@, 1, value)]
  /\ UNCHANGED provider

Reject(c) ==
  \E i \in 1..Len(call[c].reqs) :
    LET req == call[c].reqs[i] IN
    /\ req.status = "pending"
    /\ call' = [call EXCEPT ![c].reqs[i].status = "rejected",
                            ![c].reqs[i].value = TransportError]
    /\ outage' = IF req.url.kind \in {"resetPassword", "sendVerifyEmail"}
                    /\ req.url.id \in UserIds
                 THEN outage \cup {req.url.id}
                 ELSE outage
    /\ UNCHANGED <<accounts, stored, created>>

----------------------------------------------------------------------------
(* The operations resume after their awaits *)

Awaiting(c, op) == call[c].op = op /\ call[c].pc = "await"

\* An awaited request: throws when rejected, otherwise yields the response.
Awaited(req) == IF req.status = "rejected" THEN Threw ELSE Returned(req.value)

\* Variant: Promise.all, which rejects when a member rejects.
JoinThrows_PromiseAll(reqs) == \E i \in 1..Len(reqs) : reqs[i].status = "rejected"

\* await Promise.allSettled([...]) never throws, whatever the members did.
JoinThrows(reqs) == FALSE

\* details, lines 23-25: response?.data
DetailsReturn(c) ==
  /\ Awaiting(c, "details")
  /\ Settled(call[c].reqs[1])
  /\ LET response == Awaited(call[c].reqs[1]) IN
     call' = [call EXCEPT ![c] =
                IF response.threw THEN Fail(@, "request")
                ELSE IF response.value.t = "undefined" THEN Return(@, Undefined)
                ELSE Return(@, response.value.data)]
  /\ UNCHANGED provider

\* batchAndParseRolesPromises, lines 98-104.
RolesAggregate(c) ==
  /\ Awaiting(c, "roles")
  /\ AllSettled(call[c].reqs)
  /\ LET batchResponses == [i \in 1..Len(call[c].reqs) |-> SettledResult(call[c].reqs[i])]
         parsed == BatchAndParseRoles(batchResponses)
     IN  call' = [call EXCEPT ![c] =
                    IF JoinThrows(@.reqs) THEN Fail(@, "request")
                    ELSE IF parsed.threw THEN Fail(@, "TypeError")
                    ELSE Return(@, parsed.value)]
  /\ UNCHANGED provider

\* Variant: create also takes the account back.
FollowUpRequests_Rollback(userId, password) ==
  << NewRequest("PUT", Url("resetPassword", userId, ""),
                [type |-> "password", value |-> password, temporary |-> FALSE], Headers),
     NewRequest("PUT", Url("sendVerifyEmail", userId, ""), Null, Headers),
     NewRequest("DELETE", Url("user", userId, ""), Undefined, Headers) >>

\* Variant: verifyEmail is only called once savePassword has been awaited.
FollowUpRequests_PasswordFirst(userId, password) ==
  << NewRequest("PUT", Url("resetPassword", userId, ""),
                [type |-> "password", value |-> password, temporary |-> FALSE], Headers) >>

\* savePassword (lines 133-142) and verifyEmail (lines 144-148), both called
\* before create awaits either (lines 52-55).
FollowUpRequests(userId, password) ==
  << NewRequest("PUT", Url("resetPassword", userId, ""),
                [type |-> "password", value |-> password, temporary |-> FALSE], Headers),
     NewRequest("PUT", Url("sendVerifyEmail", userId, ""), Null, Headers) >>

\* create, lines 50-55, once the POST has settled.
CreateFollowUps(c) ==
  /\ Awaiting(c, "create")
  /\ Len(call[c].reqs) = 1
  /\ Settled(call[c].reqs[1])
  /\ LET response == Awaited(call[c].reqs[1])
         userId == IF response.threw THEN Threw ELSE ExtractUserId(response.value)
     IN  call' = [call EXCEPT ![c] =
                    IF response.threw THEN Fail(@, "request")
                    ELSE IF userId.threw THEN Fail(@, "TypeError")
                    ELSE Issue([@ EXCEPT !.userId = Str(userId.value)],
                               FollowUpRequests(userId.value, @.args.user.password))]
  /\ UNCHANGED provider

\* create, lines 52-56: the join of the two follow-ups, then return.
CreateReturn(c) ==
  /\ Awaiting(c, "create")
  /\ Len(call[c].reqs) > 1
  /\ AllSettled(SubSeq(call[c].reqs, 2, Len(call[c].reqs)))
  /\ call' = [call EXCEPT ![c] =
                IF JoinThrows(SubSeq(@.reqs, 2, Len(@.reqs)))
                THEN Fail(@, "request")
                ELSE Return(@, Undefined)]
  /\ UNCHANGED provider

\* getAttributes, lines 79-93, called by the user.
GetAttributesReturn(c) ==
  /\ Awaiting(c, "getAttributes")
  /\ Settled(call[c].reqs[1])
  /\ LET response == Awaited(call[c].reqs[1]) IN
     call' = [call EXCEPT ![c] =
                IF response.threw THEN Fail(@, "request")
                ELSE Return(@, Arr(ParseAttributes(response.value)))]
  /\ UNCHANGED provider

\* addAttributes, line 72.
UpdateRequests(id, body) ==
  << NewRequest("PUT", Url("user", id, ""), [attributes |-> body], Headers) >>

\* Variant: a rejected read is swallowed and taken as "no attributes".
AddAttributesWrite_Lenient(c) ==
  /\ Awaiting(c, "addAttributes")
  /\ call[c].frame = "getAttributes"
  /\ Settled(call[c].reqs[1])
  /\ LET response == Awaited(call[c].reqs[1])
         previousAttributes == IF response.threw THEN <<>>
                               ELSE ParseAttributes(response.value)
     IN  call' = [call EXCEPT ![c] =
                    Issue([@ EXCEPT !.frame = "addAttributes",
                                    !.previousAttributes = previousAttributes],
                          UpdateRequests(@.args.id,
                                         MergeAttributes(previousAttributes,
                                                         @.args.attributes)))]
  /\ UNCHANGED provider

\* getAttributes called by addAttributes returns (or throws), and addAttributes
\* goes on to line 72.
AddAttributesWrite(c) ==
  /\ Awaiting(c, "addAttributes")
  /\ call[c].frame = "getAttributes"
  /\ Settled(call[c].reqs[1])
  /\ LET response == Awaited(call[c].reqs[1])
         previousAttributes == ParseAttributes(response.value)
     IN  call' = [call EXCEPT ![c] =
                    IF response.threw THEN Fail(@, "request")
                    ELSE Issue([@ EXCEPT !.frame = "addAttributes",
                                         !.previousAttributes = previousAttributes],
                               UpdateRequests(@.args.id,
                                              MergeAttributes(previousAttributes,
                                                              @.args.attributes)))]
  /\ UNCHANGED provider

\* addAttributes, lines 72-73: the PUT has settled.
AddAttributesReturn(c) ==
  /\ Awaiting(c, "addAttributes")
  /\ call[c].frame = "addAttributes"
  /\ Settled(call[c].reqs[2])
  /\ call' = [call EXCEPT ![c] =
                IF Awaited(@.reqs[2]).threw THEN Fail(@, "request")
                ELSE Return(@, Undefined)]
  /\ UNCHANGED provider

----------------------------------------------------------------------------

Next ==
  \/ \E c \in DOMAIN call : CallDetails(c)
  \/ \E c \in DOMAIN call : CallRoles(c)
  \/ \E c \in DOMAIN call : CallCreate(c)
  \/ \E c \in DOMAIN call : CallAddAttributes(c)
  \/ \E c \in DOMAIN call : CallGetAttributes(c)
  \/ \E c \in DOMAIN call : TokenRejected(c)
  \/ \E c \in DOMAIN call : DetailsGet(c)
  \/ \E c \in DOMAIN call : RolesFanOut(c)
  \/ \E c \in DOMAIN call : CreatePost(c)
  \/ \E c \in DOMAIN call : AddAttributesRead(c)
  \/ \E c \in DOMAIN call : GetAttributesGet(c)
  \/ \E c \in DOMAIN call : Fulfil(c)
  \/ \E c \in DOMAIN call : FulfilMalformed(c)
  \/ \E c \in DOMAIN call : Reject(c)
  \/ \E c \in DOMAIN call : DetailsReturn(c)
  \/ \E c \in DOMAIN call : RolesAggregate(c)
  \/ \E c \in DOMAIN call : CreateFollowUps(c)
  \/ \E c \in DOMAIN call : CreateReturn(c)
  \/ \E c \in DOMAIN call : GetAttributesReturn(c)
  \/ \E c \in DOMAIN call : AddAttributesWrite(c)
  \/ \E c \in DOMAIN call : AddAttributesReturn(c)

Spec == Init /\ [][Next]_vars

----------------------------------------------------------------------------
(* Properties of roles *)

Succeeded(req) == req.status = "fulfilled" /\ req.value.t = "response"

\* The role names of the successful requests, in batch order, duplicates kept.
RECURSIVE RoleNamesOfSuccesses(_)
RoleNamesOfSuccesses(reqs) ==
  IF reqs = <<>> THEN <<>>
  ELSE (IF Succeeded(Head(reqs))
        THEN [i \in 1..Len(Head(reqs).value.data.items) |->
                JsString(Head(reqs).value.data.items[i].name)]
        ELSE <<>>)
       \o RoleNamesOfSuccesses(Tail(reqs))

RolesFinished(cl) ==
  cl.op = "roles" /\ cl.pc \in {"done", "failed"} /\ cl.error # "token"

\* C1: a roles call in which at least one scope request succeeded returns the
\* flat sequence of the role names of the successful responses only.
C1_RolesReturnsRoleNames ==
  \A c \in DOMAIN call :
    (/\ RolesFinished(call[c])
     /\ \E i \in 1..Len(call[c].reqs) : Succeeded(call[c].reqs[i]))
    => /\ call[c].pc = "done"
       /\ call[c].result = Arr(RoleNamesOfSuccesses(call[c].reqs))

AllRejected(reqs) == \A i \in 1..Len(reqs) : reqs[i].status = "rejected"

C3_FullBarrierJoin ==
  [][\A c \in DOMAIN call :
       /\ (call[c].op = "roles" /\ call[c].pc = "await" /\ call'[c].pc # "await")
          => \A i \in 1..Len(call[c].reqs) : call[c].reqs[i].status # "pending"
       /\ (/\ call[c].op = "create" /\ call[c].pc = "await"
           /\ Len(call[c].reqs) > 1 /\ call'[c].pc # "await")
          => \A i \in 2..Len(call[c].reqs) : call[c].reqs[i].status # "pending"]_vars

C3_Witness ==
  \E c \in DOMAIN call :
    /\ call[c].op = "roles" /\ call[c].pc = "done"
    /\ Len(call[c].reqs) = 3
    /\ call[c].reqs[1].status = "rejected"
    /\ Succeeded(call[c].reqs[3])

----------------------------------------------------------------------------
(* Properties of create *)

FollowUpsIssued(cl) == cl.op = "create" /\ Len(cl.reqs) > 1

\* C4: once the POST has succeeded and an id has been extracted, create does
\* not fail, whatever the two follow-ups do: it waits, and with both settled it
\* returns (undefined) to the caller.
C4_FollowUpFailureNeverFailsCreate ==
  \A c \in DOMAIN call :
    FollowUpsIssued(call[c])
    => /\ call[c].pc \in {"await", "done"}
       /\ call[c].error = "none"
       /\ (call[c].pc = "done" => call[c].result = Undefined)
       /\ (/\ call[c].pc = "await"
           /\ \A i \in 2..Len(call[c].reqs) : call[c].reqs[i].status # "pending")
          => ENABLED CreateReturn(c)

C4_Witness ==
  \E c \in DOMAIN call :
    /\ FollowUpsIssued(call[c]) /\ call[c].pc = "done"
    /\ call[c].reqs[2].status = "rejected"
    /\ call[c].reqs[3].status = "rejected"

\* C5: creation is durable.  An account a creation POST has made exists in
\* every later state, no operation issues a request that removes an account,
\* and a details call on such an account that the provider answers returns its
\* record.
C5_CreationIsDurable ==
  /\ created \subseteq accounts
  /\ \A c \in DOMAIN call : \A i \in 1..Len(call[c].reqs) :
       call[c].reqs[i].method # "DELETE"
  /\ \A c \in DOMAIN call :
       (/\ call[c].op = "details" /\ call[c].pc = "done"
        /\ call[c].args.id \in created
        /\ call[c].reqs[1].value.t = "response")
       => /\ call[c].result.t = "user"
          /\ call[c].result.id = call[c].args.id

C5_Witness ==
  \E c \in DOMAIN call :
    /\ call[c].op = "details" /\ call[c].pc = "done"
    /\ call[c].args.id \in created \cap outage
    /\ call[c].result.t = "user"

\* The creation POST gave no usable id: it failed, or its response carries no
\* location, or the location's final path segment is empty.
NoUsableId(req) ==
  \/ req.status = "rejected"
  \/ /\ req.status = "fulfilled"
     /\ \/ req.value.t = "undefined"
        \/ req.value.headers.t = "undefined"
        \/ req.value.headers.location.t = "undefined"
        \/ req.value.headers.location.chars = <<>>
        \/ req.value.headers.location.chars[Len(req.value.headers.location.chars)] = "/"

\* C6: without a usable id create fails for the caller and issues neither
\* follow-up request.
C6_NoFollowUpWithoutUsableId ==
  \A c \in DOMAIN call :
    (/\ call[c].op = "create" /\ Len(call[c].reqs) >= 1
     /\ NoUsableId(call[c].reqs[1]))
    => /\ Len(call[c].reqs) = 1
       /\ call[c].pc \in {"await", "failed"}

----------------------------------------------------------------------------
(* Properties of addAttributes *)

ReadRejected(cl) == cl.reqs[1].status = "rejected"
ReadNothing(cl) == cl.reqs[1].status = "fulfilled" /\ cl.reqs[1].value.t = "undefined"

\* addAttributes is past its read of the existing attributes.
PastRead(cl) ==
  /\ cl.op = "addAttributes" /\ Len(cl.reqs) >= 1
  /\ (cl.pc = "failed" \/ cl.frame = "addAttributes")

IncomingKeys(attributes) == {attributes[i].key : i \in 1..Len(attributes)}

\* The value of the last occurrence of key k in the incoming list.
LastIncoming(attributes, k) ==
  LET i == CHOOSE j \in 1..Len(attributes) :
             /\ attributes[j].key = k
             /\ \A l \in (j + 1)..Len(attributes) : attributes[l].key # k
  IN  attributes[i].value

\* The entries of the written body that carry key k.
BodyValues(body, k) ==
  {body.entries[i][2] : i \in {j \in 1..Len(body.entries) : body.entries[j][1] = k}}

\* The PUT was issued with exactly the incoming attributes, and the read is not
\* what made the operation fail.
WroteIncomingOnly(cl) ==
  /\ Len(cl.reqs) = 2
  /\ cl.reqs[2].method = "PUT" /\ cl.reqs[2].url = Url("user", cl.args.id, "")
  /\ KeysOf(cl.reqs[2].body.attributes.entries) = IncomingKeys(cl.args.attributes)
  /\ \A k \in IncomingKeys(cl.args.attributes) :
       BodyValues(cl.reqs[2].body.attributes, k) = {LastIncoming(cl.args.attributes, k)}
  /\ (cl.pc = "failed" => cl.reqs[2].status = "rejected")

\* C7 as stated: when the read of the existing attributes fails (the GET is
\* rejected, or returns nothing), addAttributes takes them as empty, still
\* issues the PUT with the incoming attributes, and does not fail.
C7_FailedReadTakenAsEmpty ==
  \A c \in DOMAIN call :
    (PastRead(call[c]) /\ (ReadRejected(call[c]) \/ ReadNothing(call[c])))
    => WroteIncomingOnly(call[c])

\* C7 amended: when the GET returns nothing, addAttributes takes the existing
\* attributes as empty and issues the PUT with the incoming attributes; when
\* the GET is rejected, addAttributes fails and issues no PUT.
C7_OnlyAnEmptyReadTakenAsEmpty ==
  \A c \in DOMAIN call :
    PastRead(call[c])
    => /\ ReadNothing(call[c])
          => (call[c].previousAttributes = <<>> /\ WroteIncomingOnly(call[c]))
       /\ ReadRejected(call[c])
          => (call[c].pc = "failed" /\ Len(call[c].reqs) = 1)

C7_Witness ==
  \E c \in DOMAIN call :
    /\ PastRead(call[c]) /\ ReadNothing(call[c])
    /\ call[c].pc = "done"
    /\ Len(call[c].args.attributes) = 2
    /\ stored[call[c].args.id] = StoredMap(MappingOf(call[c].reqs[2].body.attributes.entries))

\* C8: in the mapping addAttributes writes, a key that is both in the
\* previously stored attributes and in the incoming ones carries exactly the
\* incoming value list (of its last incoming occurrence).
C8_IncomingValueReplacesStored ==
  \A c \in DOMAIN call :
    (call[c].op = "addAttributes" /\ Len(call[c].reqs) = 2)
    => \A k \in IncomingKeys(call[c].args.attributes)
                  \cap IncomingKeys(call[c].previousAttributes) :
         /\ Cardinality({i \in 1..Len(call[c].reqs[2].body.attributes.entries) :
                           call[c].reqs[2].body.attributes.entries[i][1] = k}) = 1
         /\ BodyValues(call[c].reqs[2].body.attributes, k)
              = {LastIncoming(call[c].args.attributes, k)}

C8_Witness ==
  \E c \in DOMAIN call :
    /\ call[c].op = "addAttributes" /\ Len(call[c].reqs) = 2
    /\ \E k \in IncomingKeys(call[c].previousAttributes) :
         /\ Len(call[c].args.attributes) = 2
         /\ call[c].args.attributes[1].key = k
         /\ call[c].args.attributes[2].key = k
         /\ call[c].args.attributes[1].value # call[c].args.attributes[2].value
         /\ LastIncoming(call[c].previousAttributes, k) # call[c].args.attributes[2].value

----------------------------------------------------------------------------
(* Properties of the token supplier's use *)

\* C10 as stated: every public operation asks the token supplier exactly once
\* per invocation.
C10_TokenAskedOncePerOperation ==
  \A c \in DOMAIN call : call[c].op # "none" => call[c].asks = 1

\* C10 amended: details, roles, create and getAttributes ask the supplier once
\* per invocation, however many requests they issue; addAttributes asks once
\* itself and, when that succeeds, a second time through the getAttributes it
\* calls.
C10_TokenAsksPerOperation ==
  \A c \in DOMAIN call :
    /\ call[c].op \in {"details", "roles", "create", "getAttributes"}
       => call[c].asks = 1
    /\ call[c].op = "addAttributes"
       => call[c].asks = (IF call[c].frame = "addAttributes" /\ call[c].reqs = <<>>
                          THEN 1 ELSE 2)
    /\ (call[c].op = "addAttributes" /\ call[c].pc = "done") => call[c].asks = 2

C10_Witness ==
  \E c \in DOMAIN call :
    /\ call[c].op = "addAttributes" /\ call[c].pc = "done"
    /\ Len(call[c].reqs) = 2
    /\ call[c].asks = 2

\* C11: when the token supplier fails, the operation fails for the caller with
\* the supplier's failure, the supplier is not asked again (the failing ask is
\* the operation's last: the first one, or for addAttributes possibly the one
\* its getAttributes makes), and no HTTP request is issued: the step in which
\* the supplier fails goes straight to the failed operation, and a failed
\* operation that carries the supplier's failure has issued nothing.
C11_TokenFailureFailsTheOperation ==
  /\ [][\A c \in DOMAIN call :
          (call[c].pc = "token" /\ call'[c] # call[c] /\ call'[c].error = "token")
          => /\ call'[c].pc = "failed"
             /\ call'[c].asks = call[c].asks
             /\ call'[c].reqs = <<>>]_vars
  /\ [](\A c \in DOMAIN call :
          call[c].error = "token"
          => /\ call[c].pc = "failed"
             /\ call[c].reqs = <<>>
             /\ call[c].asks = (IF call[c].frame = call[c].op THEN 1 ELSE 2))

C11_Witness ==
  \E c \in DOMAIN call :
    /\ call[c].op = "addAttributes" /\ call[c].frame = "getAttributes"
    /\ call[c].pc = "failed" /\ call[c].error = "token"
    /\ call[c].asks = 2
    /\ call[c].reqs = <<>>

----------------------------------------------------------------------------
(* Properties of getAttributes *)

\* The fetched record gives no attribute mapping: no response or no body at
\* all, no attributes field, or an attributes field that is not a mapping.
NoAttributeMapping(value) ==
  \/ value.t = "undefined"
  \/ value.data.t = "undefined"
  \/ value.data.attributes.t # "object"

\* C12: getAttributes returns the empty list and does not fail whenever the
\* fetched record has no attributes field, a malformed one, or no body; only a
\* failure of the GET (or of the token supplier) makes it fail.
C12_LenientReadReturnsEmpty ==
  \A c \in DOMAIN call :
    (call[c].op = "getAttributes" /\ call[c].pc \in {"done", "failed"})
    => /\ call[c].pc = "failed"
          => (call[c].error = "token"
              \/ (call[c].reqs # <<>> /\ call[c].reqs[1].status = "rejected"))
       /\ (call[c].pc = "done" /\ NoAttributeMapping(call[c].reqs[1].value))
          => call[c].result = Arr(<<>>)

----------------------------------------------------------------------------
(* Properties of the requests create and roles issue *)

\* C13: the password is never part of the creation POST's body; within create
\* it is sent only as the value of the reset-password PUT; every other field of
\* the user is in the POST body unchanged.
C13_PasswordOnlyInResetPassword ==
  \A c \in DOMAIN call :
    (call[c].op = "create" /\ call[c].reqs # <<>>)
    => LET user == call[c].args.user
           post == call[c].reqs[1]
       IN  /\ post.method = "POST"
           /\ DOMAIN post.body = DOMAIN user \ {"password"}
           /\ \A f \in DOMAIN post.body :
                post.body[f] = user[f] /\ post.body[f] # user.password
           /\ \A i \in 2..Len(call[c].reqs) :
                LET req == call[c].reqs[i] IN
                IF req.url.kind = "resetPassword"
                THEN /\ req.method = "PUT"
                     /\ req.body = [type |-> "password", value |-> user.password,
                                    temporary |-> FALSE]
                ELSE req.body = Null

C13_Witness ==
  \E c \in DOMAIN call :
    /\ call[c].op = "create" /\ Len(call[c].reqs) = 3
    /\ call[c].reqs[2].url.kind = "resetPassword"
    /\ call[c].reqs[2].body.value = "pw2"
    /\ call[c].reqs[1].body = [username |-> "bob", email |-> "bob@x"]

\* The requests roles is to issue for its arguments: one client GET per entry
\* of clientsIds, in order, then the realm GET when asked for.
ExpectedRolesUrls(args) ==
  [i \in 1..Len(args.clientsIds) |-> Url("clientRoles", args.id, args.clientsIds[i])]
    \o (IF args.includeRealmRoles THEN << Url("realmRoles", args.id, "") >> ELSE <<>>)

\* C14: roles issues exactly one GET per entry of clientsIds plus exactly one
\* realm GET when includeRealmRoles is true and none otherwise, and issues all
\* of them before it waits for any: nothing is issued while it awaits the
\* token, and the step that issues leaves the whole batch pending.
C14_OneRequestPerScopeIssuedAtOnce ==
  /\ [](\A c \in DOMAIN call :
          call[c].op = "roles"
          => IF call[c].pc = "token" \/ call[c].error = "token"
             THEN call[c].reqs = <<>>
             ELSE /\ Len(call[c].reqs) = Len(ExpectedRolesUrls(call[c].args))
                  /\ \A i \in 1..Len(call[c].reqs) :
                       /\ call[c].reqs[i].method = "GET"
                       /\ call[c].reqs[i].url = ExpectedRolesUrls(call[c].args)[i])
  /\ [][\A c \in DOMAIN call :
          (call[c].op = "roles" /\ call[c].pc = "token" /\ call'[c].pc = "await")
          => /\ Len(call'[c].reqs) = Len(ExpectedRolesUrls(call[c].args))
             /\ \A i \in 1..Len(call'[c].reqs) : call'[c].reqs[i].status = "pending"]_vars

C14_Witness ==
  \E c \in DOMAIN call :
    /\ call[c].op = "roles" /\ call[c].pc = "await"
    /\ call[c].args.clientsIds = <<"cA", "cA">>
    /\ call[c].args.includeRealmRoles
    /\ Len(call[c].reqs) = 3
    /\ \A i \in 1..3 : call[c].reqs[i].status = "pending"

\* C15: in every create execution that extracts a user id both follow-ups are
\* issued, each before the other has settled: the step that extracts the id
\* leaves the reset-password and the send-verify-email request pending, and
\* whatever becomes of one, the other stays issued.
C15_BothFollowUpsIssuedTogether ==
  /\ [][\A c \in DOMAIN call :
          (call[c].userId.t = "undefined" /\ call'[c].userId.t = "string")
          => /\ Len(call'[c].reqs) = 3
             /\ call'[c].reqs[2].status = "pending"
             /\ call'[c].reqs[3].status = "pending"]_vars
  /\ [](\A c \in DOMAIN call :
          call[c].userId.t = "string"
          => /\ Len(call[c].reqs) = 3
             /\ call[c].reqs[2].method = "PUT"
             /\ call[c].reqs[2].url = Url("resetPassword", call[c].userId.chars, "")
             /\ call[c].reqs[3].method = "PUT"
             /\ call[c].reqs[3].url = Url("sendVerifyEmail", call[c].userId.chars, ""))

C15_Witness ==
  \E c \in DOMAIN call :
    /\ call[c].userId = Str(IdB)
    /\ call[c].reqs[2].status = "rejected"
    /\ call[c].reqs[3].status = "pending"

----------------------------------------------------------------------------
(* Completion *)

Running(c) == call[c].pc \in {"token", "await"}
Finished(c) == call[c].pc \in {"done", "failed"}

\* The token supplier answers an ask.
TokenAnswers ==
  \E c \in DOMAIN call :
    \/ TokenRejected(c) \/ DetailsGet(c) \/ RolesFanOut(c) \/ CreatePost(c)
    \/ AddAttributesRead(c) \/ GetAttributesGet(c)

\* The transport settles a pending request.
Settles == \E c \in DOMAIN call : Fulfil(c) \/ FulfilMalformed(c) \/ Reject(c)

\* An operation whose await is over goes on.
Resumes ==
  \E c \in DOMAIN call :
    \/ DetailsReturn(c) \/ RolesAggregate(c) \/ CreateFollowUps(c) \/ CreateReturn(c)
    \/ GetAttributesReturn(c) \/ AddAttributesWrite(c) \/ AddAttributesReturn(c)

\* The invocations completion is checked on: every operation, roles with an
\* empty and with a full batch.
SomeInvocations ==
  { [op |-> "details", args |-> [NoArgs EXCEPT !.id = IdA]],
    [op |-> "details", args |-> [NoArgs EXCEPT !.id = IdB]],
    [op |-> "roles", args |-> [NoArgs EXCEPT !.id = IdA]],
    [op |-> "roles", args |-> [NoArgs EXCEPT !.id = IdA, !.clientsIds = <<"cA", "cB">>,
                                             !.includeRealmRoles = TRUE]],
    [op |-> "create", args |-> [NoArgs EXCEPT !.user = CHOOSE u \in Users : TRUE]],
    [op |-> "addAttributes",
     args |-> [NoArgs EXCEPT !.id = IdA,
                             !.attributes = << [key |-> "k1", value |-> <<"x">>] >>]],
    [op |-> "getAttributes", args |-> [NoArgs EXCEPT !.id = IdA]] }

CallSome(c) ==
  /\ Free(c)
  /\ \E inv \in SomeInvocations : call' = [call EXCEPT ![c] = Invoke(inv.op, inv.args)]
  /\ UNCHANGED provider

FairNext ==
  \/ \E c \in DOMAIN call : CallSome(c)
  \/ \E c \in DOMAIN call : TokenRejected(c)
  \/ \E c \in DOMAIN call : DetailsGet(c)
  \/ \E c \in DOMAIN call : RolesFanOut(c)
  \/ \E c \in DOMAIN call : CreatePost(c)
  \/ \E c \in DOMAIN call : AddAttributesRead(c)
  \/ \E c \in DOMAIN call : GetAttributesGet(c)
  \/ \E c \in DOMAIN call : Fulfil(c)
  \/ \E c \in DOMAIN call : FulfilMalformed(c)
  \/ \E c \in DOMAIN call : Reject(c)
  \/ \E c \in DOMAIN call : DetailsReturn(c)
  \/ \E c \in DOMAIN call : RolesAggregate(c)
  \/ \E c \in DOMAIN call : CreateFollowUps(c)
  \/ \E c \in DOMAIN call : CreateReturn(c)
  \/ \E c \in DOMAIN call : GetAttributesReturn(c)
  \/ \E c \in DOMAIN call : AddAttributesWrite(c)
  \/ \E c \in DOMAIN call : AddAttributesReturn(c)

\* The transport and the token supplier that answer, and the event loop that
\* runs a continuation once its promise has settled.
FairSpec ==
  /\ Init /\ [][FairNext]_vars
  /\ WF_vars(TokenAnswers) /\ WF_vars(Settles) /\ WF_vars(Resumes)

\* C16: completion depends only on the transport.  With a token supplier that
\* answers and a transport that settles every request, each operation that is
\* running eventually completes; and roles and create are never complete while
\* a request of the batch, or of the follow-up pair, is still pending.
C16_CompletionFollowsTheTransport ==
  /\ \A c \in Callers : Running(c) ~> Finished(c)
  /\ [](\A c \in DOMAIN call :
          (call[c].op \in {"roles", "create"} /\ Finished(c))
          => \A i \in 1..Len(call[c].reqs) : call[c].reqs[i].status # "pending")

C16_Witness ==
  \E c \in DOMAIN call :
    /\ call[c].op = "create" /\ call[c].pc = "await"
    /\ Len(call[c].reqs) = 3
    /\ call[c].reqs[2].status = "fulfilled"
    /\ call[c].reqs[3].status = "pending"

----------------------------------------------------------------------------
(* Properties of the body addAttributes writes *)

PutIssued(cl) == cl.op = "addAttributes" /\ Len(cl.reqs) = 2

\* The keys the provider holds for an account.
StoredKeys(id) == IF stored[id].t = "map" THEN DOMAIN stored[id].m ELSE {}

\* C17 as stated: the single PUT is issued only after the GET has completed,
\* and its body holds every key stored before the call that incoming does not
\* name, with its stored value, and no key that is neither stored nor incoming.
C17_BodyKeepsStoredAttributes ==
  \A c \in DOMAIN call :
    (PutIssued(call[c]) /\ call[c].reqs[2].status = "pending")
    => LET body == call[c].reqs[2].body.attributes
           id == call[c].args.id
           incoming == IncomingKeys(call[c].args.attributes)
       IN  /\ call[c].reqs[1].status = "fulfilled"
           /\ KeysOf(body.entries) \subseteq StoredKeys(id) \cup incoming
           /\ \A k \in StoredKeys(id) \ incoming :
                BodyValues(body, k) = {stored[id].m[k]}

\* C17 amended: the single PUT is issued only after the GET has been
\* fulfilled, and its body is the merge of what the GET returned with incoming:
\* every key read that incoming does not name is in the body with the value
\* read, and the body has no key that was neither read nor incoming.  When the
\* GET returned the stored record, what was read is what is stored; when it
\* returned nothing, nothing was read and the body holds incoming alone.
C17_BodyKeepsReadAttributes ==
  \A c \in DOMAIN call :
    /\ call[c].op = "addAttributes"
       => /\ Len(call[c].reqs) <= 2
          /\ \A i \in 1..Len(call[c].reqs) :
               (call[c].reqs[i].method = "PUT") = (i = 2)
    /\ PutIssued(call[c])
       => LET body == call[c].reqs[2].body.attributes
              id == call[c].args.id
              read == call[c].previousAttributes
              incoming == IncomingKeys(call[c].args.attributes)
          IN  /\ call[c].reqs[1].status = "fulfilled"
              /\ read = ParseAttributes(call[c].reqs[1].value)
              /\ KeysOf(body.entries) = IncomingKeys(read) \cup incoming
              /\ \A k \in IncomingKeys(read) \ incoming :
                   BodyValues(body, k) = {LastIncoming(read, k)}
              /\ (call[c].reqs[1].value.t = "response"
                  /\ call[c].reqs[2].status = "pending")
                 => /\ IncomingKeys(read) = StoredKeys(id)
                    /\ \A k \in StoredKeys(id) : LastIncoming(read, k) = stored[id].m[k]
              /\ call[c].reqs[1].value.t = "undefined" => read = <<>>

C17_Witness ==
  \E c \in DOMAIN call :
    /\ PutIssued(call[c]) /\ call[c].reqs[2].status = "pending"
    /\ call[c].reqs[1].value.t = "response"
    /\ call[c].args.attributes # <<>>
    /\ StoredKeys(call[c].args.id) \ IncomingKeys(call[c].args.attributes) # {}

----------------------------------------------------------------------------
(* Two addAttributes calls on one account at the same time *)

ConcurrentCallers == {"c1", "c2"}

\* The key each caller writes: the two key sets are disjoint.
OwnKey(c) == IF c = "c1" THEN "k1" ELSE "k2"

InitConcurrent ==
  /\ call = [c \in ConcurrentCallers |-> IdleCall]
  /\ accounts = {IdA}
  /\ stored = [id \in UserIds |-> NoAttributes]
  /\ created = {}
  /\ outage = {}

\* addAttributes(IdA, [{key: own key, value}]) is entered.
CallAddOwnAttribute(c) ==
  /\ Free(c)
  /\ \E value \in Values :
       call' = [call EXCEPT ![c] =
                  Invoke("addAttributes",
                         [NoArgs EXCEPT !.id = IdA,
                                        !.attributes = << [key |-> OwnKey(c), value |-> value] >>])]
  /\ UNCHANGED provider

NextConcurrent ==
  \/ \E c \in DOMAIN call : CallAddOwnAttribute(c)
  \/ \E c \in DOMAIN call : TokenRejected(c)
  \/ \E c \in DOMAIN call : AddAttributesRead(c)
  \/ \E c \in DOMAIN call : GetAttributesGet(c)
  \/ \E c \in DOMAIN call : Fulfil(c)
  \/ \E c \in DOMAIN call : Reject(c)
  \/ \E c \in DOMAIN call : AddAttributesWrite(c)
  \/ \E c \in DOMAIN call : AddAttributesReturn(c)

SpecConcurrent == InitConcurrent /\ [][NextConcurrent]_vars

\* The call has completed successfully, having read the stored record.
CompletedOnRecord(cl) ==
  /\ cl.op = "addAttributes" /\ cl.pc = "done"
  /\ cl.reqs[1].value.t = "response"

\* C18: no lost update.  When the two callers' addAttributes calls on the same
\* account, with disjoint keys, have both completed successfully, the stored
\* attributes hold the key of each, with the value it wrote.
C18_NoLostUpdate ==
  (\A c \in DOMAIN call : CompletedOnRecord(call[c]))
  => \A c \in DOMAIN call :
       /\ OwnKey(c) \in StoredKeys(IdA)
       /\ stored[IdA].m[OwnKey(c)] = call[c].args.attributes[1].value

====
